---- MODULE Spec2Model ----
(***************************************************************************)
(* A model of fob_analysis.py: the report segmenter (parse_pdf_to_dfs)     *)
(* and the table reconciler (update_summary_workbook) for one product      *)
(* sheet of summary.xlsx.                                                  *)
(*                                                                         *)
(* Text is a sequence of one-character strings, so that strip(), len()     *)
(* and the substring test are computed.  A worksheet or grid cell is       *)
(* either None or a text.  A calendar day is a number 1..MaxDate; NaT is   *)
(* pandas' "not a time".                                                    *)
(***************************************************************************)
EXTENDS Integers, Sequences, FiniteSets, TLC

VARIABLES ws, ref, daily_files, hist,
          raw_data, date_str, pc, section_starts, section_idx, results

vars == <<ws, ref, daily_files, hist,
          raw_data, date_str, pc, section_starts, section_idx, results>>

recVars == <<ws, ref, daily_files, hist>>
segVars == <<raw_data, date_str, pc, section_starts, section_idx, results>>

(***************************************************************************)
(* Bounds of the model.                                                    *)
(***************************************************************************)
MaxDate == 3
MaxInitRows == 2
MaxRecords == 2
MaxFiles == 2
MaxSections == 8

Dates == 1..MaxDate
NaT == 0

Min(a, b) == IF a < b THEN a ELSE b
Max(a, b) == IF a > b THEN a ELSE b

(***************************************************************************)
(* Python values: text, None, truthiness, str(), str.strip(), `in`.        *)
(***************************************************************************)
None == [none |-> TRUE, s |-> <<>>]
Str(t) == [none |-> FALSE, s |-> t]

Truthy(c) == ~c.none /\ c.s # <<>>
str(c) == IF c.none THEN <<"N", "o", "n", "e">> ELSE c.s

Whitespace == {" "}

RECURSIVE lstrip(_)
lstrip(t) == IF t # <<>> /\ Head(t) \in Whitespace THEN lstrip(Tail(t)) ELSE t

RECURSIVE rstrip(_)
rstrip(t) ==
    IF t # <<>> /\ t[Len(t)] \in Whitespace
    THEN rstrip(SubSeq(t, 1, Len(t) - 1))
    ELSE t

strip(t) == rstrip(lstrip(t))

Contains(sub, t) ==
    \E i \in 1..(Len(t) - Len(sub) + 1) : SubSeq(t, i, i + Len(sub) - 1) = sub

\* seq[a:b] of Python, a and b counted from 0, b clipped to the length.
Slice(seq, a, b) == SubSeq(seq, a + 1, Min(b, Len(seq)))

RECURSIVE Flatten(_)
Flatten(ss) == IF ss = <<>> THEN <<>> ELSE Head(ss) \o Flatten(Tail(ss))

(***************************************************************************)
(* The summary worksheet.  A worksheet row holds the Month cell, the       *)
(* cells between Month and Date (kept together as one value `rest` that    *)
(* names where the row came from) and the Date cell.                       *)
(***************************************************************************)
Oct == <<"O", "c", "t">>
Nov == <<"N", "o", "v">>
Dec == <<"D", "e", "c">>
MonthName == <<"M", "o", "n", "t", "h">>

DT(d) == [k |-> "datetime", d |-> d]
TXT(d) == [k |-> "text", d |-> d]
Junk == [k |-> "text", d |-> NaT]
NoDate == [k |-> "none", d |-> NaT]
DateName == [k |-> "name", d |-> NaT]

NoRest == [src |-> "none", d |-> 0, k |-> 0]
Existing(i) == [src |-> "t", d |-> 0, k |-> i]
Record(d, k) == [src |-> "b", d |-> d, k |-> k]
HeaderRest == [src |-> "header", d |-> 0, k |-> 0]

BlankRow == [Month |-> None, rest |-> NoRest, Date |-> NoDate]
HeaderRow == [Month |-> Str(MonthName), rest |-> HeaderRest, Date |-> DateName]

MonthLabel(k) == IF k = 1 THEN Oct ELSE IF k = 2 THEN Nov ELSE Dec

\* pd.to_datetime(..., errors='coerce') on one cell of the Date column.
to_datetime(c) ==
    CASE c.k = "datetime" -> c.d
      [] c.k = "text" -> c.d
      [] OTHER -> NaT

\* ws.cell(..., value=v) for a value of the Date column, as the saved
\* workbook holds it: a Timestamp as a datetime, NaT as an empty cell.
DateCell(v) == IF v = NaT THEN NoDate ELSE DT(v)

\* data = list(ws.iter_rows(min_row..max_row)); cells never written are None.
iter_rows(w, lo, hi) ==
    [i \in 1..(hi - lo + 1) |-> IF lo + i - 1 <= Len(w) THEN w[lo + i - 1] ELSE BlankRow]

\* df = pd.DataFrame(rows, columns=headers); df['Date'] = to_datetime(df['Date'])
ReadTable(w, r) ==
    LET data == iter_rows(w, r.min_row, r.max_row)
        rows == Tail(data)
    IN  [i \in 1..Len(rows) |->
            [Month |-> rows[i].Month, rest |-> rows[i].rest,
             Date |-> to_datetime(rows[i].Date)]]

NumColumns(r) == r.max_col - r.min_col + 1

ExistingDatesLast(df) == IF df = <<>> THEN {} ELSE {df[Len(df)].Date} \ {NaT}

\* existing_dates = set(df['Date'].dropna().tolist())
existing_dates(df) == {df[i].Date : i \in 1..Len(df)} \ {NaT}

IsMissingAlways(d_obj, existing) == TRUE

\* `if d_obj not in existing_dates`
IsMissing(d_obj, existing) == d_obj \notin existing

updates_needed(df, files) ==
    {d \in DOMAIN files : IsMissing(d, existing_dates(df))}

ColumnsMatchAlways(daily_columns, df_columns) == TRUE

\* `if len(daily_df.columns) == len(df.columns)`
ColumnsMatch(daily_columns, df_columns) == daily_columns = df_columns

\* The batches that reach new_rows: read without error, same column count.
Admitted(df, files, ncols) ==
    {d \in updates_needed(df, files) :
        files[d].readable /\ ColumnsMatch(files[d].fields, ncols)}

\* pd.read_excel(file_path, sheet_name) with its columns renamed by position.
read_excel(d, file) ==
    [k \in 1..file.n |-> [Month |-> Str(MonthLabel(k)), rest |-> Record(d, k), Date |-> d]]

RECURSIVE ConcatFrom(_, _, _)
ConcatFrom(d, admitted, files) ==
    IF d > MaxDate THEN <<>>
    ELSE (IF d \in admitted THEN read_excel(d, files[d]) ELSE <<>>)
         \o ConcatFrom(d + 1, admitted, files)

\* new_data = pd.concat(new_rows)
new_data(admitted, files) == ConcatFrom(1, admitted, files)

AllNA(row) == row.Month.none /\ row.rest = NoRest /\ row.Date = NaT
KeepAll(row) == ~AllNA(row)
HasMonth(row) == ~row.Month.none /\ strip(str(row.Month)) # <<>>

\* df.dropna(how='all'), then the Month filter
Cleanup(df) == SelectSeq(SelectSeq(df, KeepAll), HasMonth)

RECURSIVE Perms(_)
Perms(s) ==
    IF s = <<>> THEN {<<>>}
    ELSE UNION {{<<s[i]>> \o p :
                   p \in Perms(SubSeq(s, 1, i - 1) \o SubSeq(s, i + 1, Len(s)))} :
                i \in 1..Len(s)}

OnDate(df, d) == LET Is(row) == row.Date = d IN SelectSeq(df, Is)

RECURSIVE SortedFrom(_, _)
SortedFrom(d, df) ==
    IF d > MaxDate THEN {OnDate(df, NaT)}
    ELSE {p \o q : p \in Perms(OnDate(df, d)), q \in SortedFrom(d + 1, df)}

Unsorted(df) == {df}

\* df.sort_values('Date'): kind='quicksort' is not a stable sort, so rows of
\* equal Date come out in any order; NaT rows go last in their input order.
sort_values(df) == SortedFrom(1, df)

new_max_row_off(min_row, n) == min_row + n

\* new_max_row = min_row + len(updated_data) - 1
new_max_row(min_row, n) == min_row + n - 1

ToCells(row) == [Month |-> row.Month, rest |-> row.rest, Date |-> DateCell(row.Date)]

\* The write loop over updated_data and the new table.ref.
WriteBack(w, r, df) ==
    LET updated_data == <<HeaderRow>> \o [i \in 1..Len(df) |-> ToCells(df[i])]
        top == new_max_row(r.min_row, Len(updated_data))
        last == r.min_row + Len(updated_data) - 1
    IN  [ws |-> [i \in 1..Max(Len(w), last) |->
                    IF i >= r.min_row /\ i <= last THEN updated_data[i - r.min_row + 1]
                    ELSE w[i]],
         ref |-> [min_col |-> r.min_col, min_row |-> r.min_row,
                  max_col |-> r.max_col, max_row |-> top]]

\* The body of the loop of update_summary_workbook for the sheet: the set of
\* tables it can leave behind.
Reconcile(w, r, files) ==
    LET data == iter_rows(w, r.min_row, r.max_row)
        headers == data[1]
        df == ReadTable(w, r)
        adm == Admitted(df, files, NumColumns(r))
        merged == Cleanup(df \o new_data(adm, files))
    IN  IF data = <<>> \/ headers.Date # DateName
          \/ updates_needed(df, files) = {} \/ adm = {}
        THEN {[ws |-> w, ref |-> r]}
        ELSE {WriteBack(w, r, out) : out \in sort_values(merged)}

(***************************************************************************)
(* The report segmenter, parse_pdf_to_dfs.  raw_data is tables[0] of the   *)
(* first page: a rectangular grid, every row with the same number of       *)
(* cells.  Row and column indices are counted from 0 as in the source.     *)
(***************************************************************************)
SHEET_NAMES ==
    << "SRW_US_Gulf", "HRW_Texas_Gulf", "HRW_US_PNW", "White_Wheat_US_PNW",
       "DNS_US_PNW", "No1_Milling_DNS", "Argentine_Wheat", "French_Wheat",
       "Russian_Milling_Wheat", "Ukrainian_Milling_Wheat", "Russian_Corn", "Ukrainian_Corn",
       "Gulf_Corn", "PNW_Corn", "Argentine_Corn", "Brazilian_Corn",
       "Gulf_Soybeans", "Argentine_Soybeans", "Brazilian_Soybeans", "Canadian_Canola",
       "Gulf_Soyoil", "Argentine_Soyoil", "Brazilian_Soyoil", "Malaysian_Olein",
       "Gulf_Soymeal", "Argentine_Soymeal_Pellets", "Brazilian_Soymeal_Pellets",
       "Indian_Soymeal" >>

ProductsPerSection == 4
BlockWidth == 4
MaxMonthLen == 15

At(row, j) == row[j + 1]

\* The test of line 89-97 on one row (every row has a second cell here).
IsSectionStart(row) ==
    /\ Truthy(At(row, 1)) /\ strip(str(At(row, 1))) # <<>>
    /\ ~Contains(<<"v", "s">>, str(At(row, 1)))
    /\ ~(Truthy(At(row, 0)) /\ strip(str(At(row, 0))) # <<>>)

RECURSIVE StartsFrom(_, _)
StartsFrom(i, grid) ==
    IF i >= Len(grid) THEN <<>>
    ELSE (IF IsSectionStart(grid[i + 1]) THEN <<i>> ELSE <<>>) \o StartsFrom(i + 1, grid)

\* row[1] raises IndexError on a row with fewer than two cells.
DetectionRaises(grid) == \E i \in 1..Len(grid) : Len(grid[i]) < 2

IsValidRowAnyLength(r) ==
    /\ Truthy(At(r, 0)) /\ strip(str(At(r, 0))) # <<>>
    /\ LET val == strip(str(At(r, 0)))
       IN  ~(Contains(<<"P", "r", "i", "c", "e">>, val)
             \/ Contains(<<"D", "i", "s", "c", "l", "a", "i", "m", "e", "r">>, val))

\* The filter of lines 126-136.
IsValidRow(r) ==
    /\ Truthy(At(r, 0)) /\ strip(str(At(r, 0))) # <<>>
    /\ LET val == strip(str(At(r, 0)))
       IN  ~(Contains(<<"P", "r", "i", "c", "e">>, val)
             \/ Contains(<<"D", "i", "s", "c", "l", "a", "i", "m", "e", "r">>, val)
             \/ Len(val) > MaxMonthLen)

ReachedButLast(prod_idx) == prod_idx < Len(SHEET_NAMES) - 1

\* `if prod_idx >= len(SHEET_NAMES): break`, negated
Reached(prod_idx) == prod_idx < Len(SHEET_NAMES)

\* chunk = row[col_start:col_end], padded with None to four cells
Chunk(row, col_start) ==
    LET got == Slice(row, col_start, col_start + BlockWidth)
    IN  [j \in 1..BlockWidth |-> IF j <= Len(got) THEN got[j] ELSE None]

Entry(row, col_start, date) ==
    LET chunk == Chunk(row, col_start)
    IN  [Month |-> strip(str(At(row, 0))), vs |-> chunk[1], Chg1 |-> chunk[2],
         Flat |-> chunk[3], Chg2 |-> chunk[4], Date |-> date]

\* clean_data of lines 153-170 for the block that starts at col_start
CleanData(valid_rows, col_start, date) ==
    LET Long(row) == Len(row) > col_start
        rows == SelectSeq(valid_rows, Long)
    IN  [n \in 1..Len(rows) |-> Entry(rows[n], col_start, date)]

\* vs_header of lines 178-182
VsHeader(section_data, col_start) ==
    IF Len(section_data) > 1 /\ Len(section_data[2]) > col_start
       /\ Truthy(At(section_data[2], col_start))
    THEN strip(str(At(section_data[2], col_start)))
    ELSE <<"v", "s">>

SectionData(grid, starts, idx) ==
    LET start_row == starts[idx + 1]
        end_row == IF idx < Len(starts) - 1 THEN starts[idx + 2] ELSE Len(grid)
    IN  Slice(grid, start_row, end_row)

\* The frame of one product: its rows, and the name the 'vs' column gets
\* (a frame without rows has no columns, so nothing is renamed).
Frame(section_data, i, date) ==
    LET col_start == 1 + i * BlockWidth
        data_rows == Slice(section_data, 2, Len(section_data))
        valid_rows == SelectSeq(data_rows, IsValidRow)
        clean_data == CleanData(valid_rows, col_start, date)
    IN  [rows |-> clean_data,
         vs_header |-> IF clean_data = <<>> THEN <<>> ELSE VsHeader(section_data, col_start)]

ColChar == <<"0", "1", "2", "3", "4", "5", "6", "7", "8", "9",
             "a", "b", "c", "d", "e", "f", "g">>

GridRow(c0, c1, w) ==
    [j \in 1..w |-> IF j = 1 THEN c0
                    ELSE IF j = 2 THEN c1
                    ELSE Str(<<"#", ColChar[j]>>)]

Text15 == <<"S", "e", "p", "t", "e", "m", "b", "e", "r", " ", "2", "0", "2", "5", "x">>
Text16 == Text15 \o <<"y">>

HeaderLine(w) == GridRow(None, Str(<<"S", "R", "W">>), w)
StrayLine(w) == GridRow(Str(<<" ">>), Str(<<"7">>), w)
SubHeaderLine(w) == GridRow(None, Str(<<"v", "s", " ", "W">>), w)
DataLine(m, w) == GridRow(Str(m), Str(<<"-", "5">>), w)
BlankLine(w) == GridRow(None, None, w)

BodyFull(w) == <<SubHeaderLine(w), DataLine(Oct, w), DataLine(Nov, w), DataLine(Dec, w)>>
BodyFooter(w) ==
    <<SubHeaderLine(w), DataLine(Oct, w), DataLine(Text16, w),
      DataLine(<<" ">> \o Nov \o <<" ">>, w),
      GridRow(Str(<<"P", "r", "i", "c", "e", "s">>), None, w),
      BlankLine(w), DataLine(Text15, w),
      GridRow(Str(<<"D", "i", "s", "c", "l", "a", "i", "m", "e", "r">>), Str(<<>>), w)>>
BodyNoSub(w) == <<DataLine(Oct, w), DataLine(Nov, w)>>

Layouts == {"full", "bare", "footer", "mixed", "lead", "stray"}
Widths == {1, 3, 6, 17}

SectionOf(layout, i, s, w) ==
    CASE layout = "full" -> <<HeaderLine(w)>> \o BodyFull(w)
      [] layout = "bare" -> <<HeaderLine(w)>>
      [] layout = "footer" ->
            <<HeaderLine(w)>> \o (IF i = s THEN BodyFooter(w) ELSE BodyFull(w))
      [] layout = "mixed" ->
            <<HeaderLine(w)>> \o (IF i % 3 = 1 THEN BodyNoSub(w)
                                  ELSE IF i % 3 = 2 THEN BodyFooter(w) ELSE <<>>)
      [] layout = "lead" -> <<HeaderLine(w)>> \o BodyFull(w)
      [] OTHER -> <<StrayLine(w)>> \o BodyFull(w)

Grid(layout, s, w) ==
    (IF layout = "lead" THEN <<BlankLine(w), DataLine(Oct, w)>> ELSE <<>>)
    \o Flatten([i \in 1..s |-> SectionOf(layout, i, s, w)])

recIdle ==
    /\ ws = <<>>
    /\ ref = [min_col |-> 1, min_row |-> 1, max_col |-> 1, max_row |-> 1]
    /\ daily_files = <<>>
    /\ hist = [op |-> "init", ws |-> <<>>, ref |-> ref]

SegInit ==
    /\ \E layout \in Layouts, s \in 0..MaxSections, w \in Widths :
          raw_data = Grid(layout, s, w)
    /\ date_str \in {1, MaxDate}
    /\ pc = "start"
    /\ section_starts = <<>>
    /\ section_idx = 0
    /\ results = <<>>
    /\ recIdle

\* Lines 85-100: the scan for section headers.
FindSectionStarts ==
    /\ pc = "start"
    /\ IF DetectionRaises(raw_data)
       THEN pc' = "raised" /\ UNCHANGED section_starts
       ELSE pc' = "sections" /\ section_starts' = StartsFrom(0, raw_data)
    /\ UNCHANGED <<raw_data, date_str, section_idx, results, recVars>>

\* Lines 105-187: one turn of the loop over section_starts.
ProcessSection ==
    /\ pc = "sections"
    /\ section_idx < Len(section_starts)
    /\ LET section_data == SectionData(raw_data, section_starts, section_idx)
           reached == {i \in 0..(ProductsPerSection - 1) :
                         Reached(section_idx * ProductsPerSection + i)}
           names == {SHEET_NAMES[section_idx * ProductsPerSection + i + 1] : i \in reached}
           BlockOf(name) ==
               CHOOSE i \in reached :
                   SHEET_NAMES[section_idx * ProductsPerSection + i + 1] = name
       IN  results' = [name \in DOMAIN results \cup names |->
                          IF name \in names
                          THEN Frame(section_data, BlockOf(name), date_str)
                          ELSE results[name]]
    /\ section_idx' = section_idx + 1
    /\ UNCHANGED <<raw_data, date_str, pc, section_starts, recVars>>

\* Line 189.
ReturnResults ==
    /\ pc = "sections"
    /\ section_idx = Len(section_starts)
    /\ pc' = "returned"
    /\ UNCHANGED <<raw_data, date_str, section_starts, section_idx, results, recVars>>

SegNext == FindSectionStarts \/ ProcessSection \/ ReturnResults

SegSpec == SegInit /\ [][SegNext]_vars

(***************************************************************************)
(* Reconciler: initial tables, daily files, actions.                       *)
(***************************************************************************)
\* The rows a summary table starts with: dated rows for the days before the
\* last one, a text date, a blank Month, an unparsable date, an empty row.
InitRowChoices ==
    {[Month |-> Str(Oct), Date |-> DT(d)] : d \in 1..(MaxDate - 1)}
    \cup {[Month |-> Str(Oct), Date |-> TXT(1)],
          [Month |-> Str(<<" ">>), Date |-> DT(1)],
          [Month |-> Str(Oct), Date |-> Junk],
          [Month |-> None, Date |-> NoDate]}

InitRow(c, i) ==
    IF c.Month.none THEN BlankRow
    ELSE [Month |-> c.Month, rest |-> Existing(i), Date |-> c.Date]

InitTables ==
    UNION {[1..n -> InitRowChoices] : n \in 0..MaxInitRows}

Anchors == {[col |-> 2, row |-> 3]}

\* The sheet of the daily file for day d: one record per month row of the
\* report (one row, or on the first day MaxRecords rows), a sheet that is one
\* column short, a file that cannot be read.
Batches(d) ==
    {[fields |-> 6, n |-> n, readable |-> TRUE] :
        n \in {1} \cup (IF d = 1 THEN {MaxRecords} ELSE {})}
    \cup {[fields |-> 5, n |-> 1, readable |-> TRUE],
          [fields |-> 6, n |-> 1, readable |-> FALSE]}

segIdle ==
    /\ raw_data = <<>>
    /\ date_str = 1
    /\ pc = "idle"
    /\ section_starts = <<>>
    /\ section_idx = 0
    /\ results = <<>>

Init ==
    /\ \E a \in Anchors, t \in InitTables :
          /\ ws = [i \in 1..(a.row + Len(t)) |->
                      IF i < a.row THEN BlankRow
                      ELSE IF i = a.row THEN HeaderRow
                      ELSE InitRow(t[i - a.row], i - a.row)]
          /\ ref = [min_col |-> a.col, min_row |-> a.row,
                    max_col |-> a.col + 5, max_row |-> a.row + Len(t)]
    /\ daily_files = <<>>
    /\ hist = [op |-> "init", ws |-> ws, ref |-> ref]
    /\ segIdle

\* process_daily_pdfs writes csv/FOB_<date>.xlsx unless the file exists.
ProcessDailyPdf ==
    /\ Cardinality(DOMAIN daily_files) < MaxFiles
    /\ \E d \in Dates \ DOMAIN daily_files : \E b \in Batches(d) :
          daily_files' = [x \in DOMAIN daily_files \cup {d} |->
                             IF x = d THEN b ELSE daily_files[x]]
    /\ hist' = [op |-> "add", ws |-> ws, ref |-> ref]
    /\ UNCHANGED <<ws, ref, segVars>>

\* update_summary_workbook for the sheet, the save included.
UpdateSummaryWorkbook ==
    /\ \E t \in Reconcile(ws, ref, daily_files) :
          /\ ws' = t.ws
          /\ ref' = t.ref
    /\ hist' = [op |-> "update", ws |-> ws, ref |-> ref]
    /\ UNCHANGED <<daily_files, segVars>>

Next == ProcessDailyPdf \/ UpdateSummaryWorkbook

Spec == Init /\ [][Next]_vars

(***************************************************************************)
(* What the properties of the reconciler speak about: the table before and *)
(* after the last run, and which batches the run had to merge.             *)
(***************************************************************************)
Ran == hist.op = "update"
PreDf == ReadTable(hist.ws, hist.ref)
PostDf == ReadTable(ws, ref)
DatesOf(df) == {df[i].Date : i \in 1..Len(df)} \ {NaT}
PreDates == DatesOf(PreDf)

MonthPresent(row) == ~row.Month.none /\ strip(row.Month.s) # <<>>

\* A batch the run must merge: its date is new, it was read, its width fits.
Mergeable(d, have) ==
    /\ d \in DOMAIN daily_files
    /\ d \notin have
    /\ daily_files[d].readable
    /\ daily_files[d].fields = hist.ref.max_col - hist.ref.min_col + 1

CanMerge(d) == Mergeable(d, PreDates)

MergingGiven(have) == Ran /\ \E d \in Dates : Mergeable(d, have)
Merging == MergingGiven(PreDates)

RowsOn(df, d) == Cardinality({i \in 1..Len(df) : df[i].Date = d})
CountRest(df, x) == Cardinality({i \in 1..Len(df) : df[i].rest = x})
Kept(df) == Cardinality({i \in 1..Len(df) : MonthPresent(df[i])})

RECURSIVE MergedRecords(_, _)
MergedRecords(d, have) ==
    IF d > MaxDate THEN 0
    ELSE (IF Mergeable(d, have) THEN daily_files[d].n ELSE 0)
         + MergedRecords(d + 1, have)

NonDecreasing(df) ==
    \A i, j \in 1..Len(df) :
        (i < j /\ df[i].Date # NaT /\ df[j].Date # NaT) => df[i].Date <= df[j].Date

NaTLast(df) ==
    \A i, j \in 1..Len(df) : (i < j /\ df[i].Date = NaT) => df[j].Date = NaT

\* C1: a run of the merge on the table a run left behind, with the same
\* daily files, leaves the worksheet cells and the range as they are.
C1_Idempotent == Ran => Reconcile(ws, ref, daily_files) = {[ws |-> ws, ref |-> ref]}

\* C2 as stated: after a run the rows of the table have pairwise distinct
\* dates (as many distinct Date values as rows).
C2_UniqueDates ==
    Ran => Cardinality({PostDf[i].Date : i \in 1..Len(PostDf)}) = Len(PostDf)

\* C2 amended: a date is merged at most once. After a run, the rows dated d
\* are the rows the table already had for d (less those the cleanup of a
\* merging run removes) when d was in the Date column, else the records of
\* the one batch for d when that batch had to be merged, else none.
C2_DatesMergedOnce ==
    Ran =>
        LET pre == PreDf
            post == PostDf
            have == DatesOf(pre)
            merging == MergingGiven(have)
        IN  \A d \in Dates :
                RowsOn(post, d) =
                    IF d \in have
                    THEN (IF merging
                          THEN Cardinality({i \in 1..Len(pre) :
                                              pre[i].Date = d /\ MonthPresent(pre[i])})
                          ELSE RowsOn(pre, d))
                    ELSE IF Mergeable(d, have) THEN daily_files[d].n ELSE 0

C2_Witness ==
    /\ Ran
    /\ \E d \in Dates :
          CanMerge(d) /\ daily_files[d].n >= 2 /\ RowsOn(PostDf, d) = daily_files[d].n

\* C3 as stated: after every run, also one that admits no batch, the rows
\* are non-decreasing by Date.
C3_SortedAfterEveryRun == Ran => NonDecreasing(PostDf)

\* C3 amended: after a run that merges at least one batch the rows are
\* non-decreasing by Date, rows without a parsable Date last; a run that
\* merges nothing leaves the worksheet and the range untouched.
C3_SortedWhenMerged ==
    Ran => IF MergingGiven(DatesOf(PreDf))
           THEN LET post == PostDf IN NonDecreasing(post) /\ NaTLast(post)
           ELSE ws = hist.ws /\ ref = hist.ref

C3_Witness ==
    /\ Merging
    /\ ~NonDecreasing(PreDf)
    /\ NonDecreasing(PostDf)
    /\ Len(PostDf) > Len(PreDf)

\* C4: after a run the range keeps min_col, min_row and max_col, and
\* max_row = min_row + the number of data rows the table now has (the rows
\* it had, or the kept rows plus the merged records), header on min_row.
C4_RangeConsistent ==
    Ran =>
        LET pre == PreDf
            post == PostDf
            have == DatesOf(pre)
            merging == MergingGiven(have)
        IN  /\ ref.min_col = hist.ref.min_col
            /\ ref.min_row = hist.ref.min_row
            /\ ref.max_col = hist.ref.max_col
            /\ ref.max_row = ref.min_row
                             + (IF merging THEN Kept(pre) + MergedRecords(1, have)
                                ELSE Len(pre))
            /\ ws[ref.min_row] = HeaderRow
            /\ merging => \A i \in 1..Len(post) : MonthPresent(post[i])

C4_Witness ==
    /\ Merging
    /\ ref.max_row < hist.ref.max_row
    /\ ref.max_row > ref.min_row

\* C5 as stated: given a batch whose date is in the Date column and a batch
\* whose date is not, no record of the first is added, the rows carrying the
\* first date stay as they are, every record of the second (a batch that
\* could be read) is added; rows dated 1 and 2 with one-record batches dated
\* 2 and 3 give 3 rows.
C5_DuplicateSuppressed ==
    Ran => \A d1, d2 \in DOMAIN daily_files :
        (d1 \in PreDates /\ d2 \notin PreDates /\ daily_files[d2].readable) =>
            /\ \A k \in 1..daily_files[d1].n :
                  CountRest(PostDf, Record(d1, k)) = CountRest(PreDf, Record(d1, k))
            /\ RowsOn(PostDf, d1) = RowsOn(PreDf, d1)
            /\ \A i \in 1..Len(PreDf) :
                  PreDf[i].Date = d1 => \E j \in 1..Len(PostDf) : PostDf[j] = PreDf[i]
            /\ \A k \in 1..daily_files[d2].n :
                  \E j \in 1..Len(PostDf) : PostDf[j] = read_excel(d2, daily_files[d2])[k]
            /\ ( /\ Len(PreDf) = 2 /\ PreDf[1].Date = 1 /\ PreDf[2].Date = 2
                 /\ d1 = 2 /\ d2 = 3 /\ DOMAIN daily_files = {2, 3}
                 /\ daily_files[2].n = 1 /\ daily_files[3].n = 1 )
               => Len(PostDf) = 3

\* C5 amended: given a batch whose date is in the Date column and a batch
\* whose date is not, no record of the first is added; the rows carrying the
\* first date stay (same values, Date as a datetime) except that a merging
\* run drops those with an empty Month; every record of the second is added
\* exactly once when it was read and has the table's column count, and none
\* otherwise; in the scenario, with rows that have a Month and batches of
\* the table's width, the result has 3 rows.
C5_DuplicateSuppressedAmended ==
    Ran =>
        LET pre == PreDf
            post == PostDf
            have == DatesOf(pre)
            merging == MergingGiven(have)
        IN  \A d1, d2 \in DOMAIN daily_files :
            (d1 \in have /\ d2 \notin have) =>
                /\ \A k \in 1..daily_files[d1].n :
                      CountRest(post, Record(d1, k)) = CountRest(pre, Record(d1, k))
                /\ \A i \in 1..Len(pre) :
                      pre[i].Date = d1 =>
                          IF merging /\ ~MonthPresent(pre[i])
                          THEN \A j \in 1..Len(post) : post[j] # pre[i]
                          ELSE \E j \in 1..Len(post) : post[j] = pre[i]
                /\ \A j \in 1..Len(post) :
                      post[j].Date = d1 => \E i \in 1..Len(pre) : pre[i] = post[j]
                /\ \A k \in 1..daily_files[d2].n :
                      Cardinality({j \in 1..Len(post) :
                                     post[j] = read_excel(d2, daily_files[d2])[k]})
                      = (IF Mergeable(d2, have) THEN 1 ELSE 0)
                /\ ( /\ Len(pre) = 2 /\ pre[1].Date = 1 /\ pre[2].Date = 2
                     /\ MonthPresent(pre[1]) /\ MonthPresent(pre[2])
                     /\ d1 = 2 /\ d2 = 3 /\ DOMAIN daily_files = {2, 3}
                     /\ daily_files[2].n = 1 /\ daily_files[3].n = 1
                     /\ Mergeable(3, have) )
                   => (Len(post) = 3 /\ post[3].rest = Record(3, 1))

C5_Witness ==
    /\ Ran
    /\ Len(PreDf) = 2 /\ PreDf[1].Date = 1 /\ PreDf[2].Date = 2
    /\ MonthPresent(PreDf[1]) /\ MonthPresent(PreDf[2])
    /\ DOMAIN daily_files = {2, 3}
    /\ daily_files[2].n = 1 /\ daily_files[3].n = 1
    /\ daily_files[2].readable /\ daily_files[2].fields = 6
    /\ CanMerge(3)
    /\ Len(PostDf) = 3
    /\ PostDf[2] = PreDf[2]

\* C6: a batch whose field count differs from the table's column count adds
\* none of its records, and when it is the only batch with a new date the
\* run leaves the worksheet and the range as they were.
C6_MismatchRejected ==
    Ran =>
        LET post == PostDf
            have == PreDates
        IN  \A d \in DOMAIN daily_files :
            (d \notin have
             /\ daily_files[d].fields # hist.ref.max_col - hist.ref.min_col + 1) =>
                /\ \A k \in 1..daily_files[d].n : CountRest(post, Record(d, k)) = 0
                /\ RowsOn(post, d) = 0
                /\ (\A e \in DOMAIN daily_files : e \notin have => e = d)
                      => (ws = hist.ws /\ ref = hist.ref)

C6_Witness ==
    /\ Merging
    /\ ws # hist.ws
    /\ \E d \in DOMAIN daily_files :
          /\ d \notin PreDates
          /\ daily_files[d].readable
          /\ daily_files[d].fields # hist.ref.max_col - hist.ref.min_col + 1
          /\ RowsOn(PostDf, d) = 0

\* C9 as stated: when a run leaves fewer rows than before, every worksheet
\* row of the old range below the new max_row is empty.
C9_NoStaleCells ==
    (Ran /\ ref.max_row < hist.ref.max_row) =>
        \A i \in (ref.max_row + 1)..hist.ref.max_row : ws[i] = BlankRow

Returned == pc = "returned"

FirstNames(n) == {SHEET_NAMES[i] : i \in 1..n}

ProductIndex(name) == CHOOSE p \in 0..(Len(SHEET_NAMES) - 1) : SHEET_NAMES[p + 1] = name

\* The rows of the product's section from its row 2 on.
DataRowsOf(p) ==
    LET sec == SectionData(raw_data, section_starts, p \div ProductsPerSection)
    IN  SubSeq(sec, 3, Len(sec))

\* A valid data row: first cell non-empty after trimming, without "Price"
\* and "Disclaimer", at most 15 characters.
ValidDataRow(r) ==
    /\ ~r[1].none
    /\ strip(r[1].s) # <<>>
    /\ ~Contains(<<"P", "r", "i", "c", "e">>, strip(r[1].s))
    /\ ~Contains(<<"D", "i", "s", "c", "l", "a", "i", "m", "e", "r">>, strip(r[1].s))
    /\ Len(strip(r[1].s)) <= 15

ValidRowsOf(p) == SelectSeq(DataRowsOf(p), ValidDataRow)

\* The cell of row r in column j (from 0), None when the row is too short.
CellOrNone(r, j) == IF j + 1 <= Len(r) THEN r[j + 1] ELSE None

\* C7: once s section headers are detected, the call returns a mapping whose
\* keys are exactly the first min(4*s, 28) product names; the call raises
\* only while scanning for headers, on a grid that has a row of fewer than
\* two cells, where no section count exists.
C7_SectionCountRobust ==
    /\ Returned =>
          DOMAIN results = FirstNames(Min(4 * Len(section_starts), Len(SHEET_NAMES)))
    /\ pc = "sections" => section_idx <= Len(section_starts)
    /\ pc = "raised" =>
          (section_starts = <<>> /\ \E i \in 1..Len(raw_data) : Len(raw_data[i]) < 2)

C7_Witness ==
    /\ Returned
    /\ Len(section_starts) = 8
    /\ DOMAIN results = FirstNames(28)

\* The same with fewer sections than expected.
C7_WitnessSix ==
    /\ Returned
    /\ Len(section_starts) = 6
    /\ DOMAIN results = FirstNames(24)

\* C8 as stated: every product reached has exactly one record per valid
\* data row of its section, in row order, whatever cells the row has; so 7
\* sections with 3 valid data rows each give 28 keys of length 3.
C8_OneRecordPerValidRow ==
    Returned =>
        /\ \A name \in DOMAIN results :
              LET v == ValidRowsOf(ProductIndex(name))
                  got == results[name].rows
              IN  /\ Len(got) = Len(v)
                  /\ \A n \in 1..Len(v) : got[n].Month = strip(v[n][1].s)
        /\ ( /\ Len(section_starts) = 7
             /\ \A p \in 0..27 : Len(ValidRowsOf(p)) = 3 )
           => /\ DOMAIN results = FirstNames(28)
              /\ \A name \in DOMAIN results : Len(results[name].rows) = 3

\* C8 amended: every product reached has exactly one record per valid data
\* row of its section that has a cell at the first column of the product's
\* block (more than 1+4k cells), in row order; the record holds the trimmed
\* first cell, the four cells of the block with None for the cells the row
\* lacks, and the date. Rows too short to reach the block give no record.
\* So 7 sections with 3 valid data rows each, every row reaching all four
\* blocks, give 28 keys of length 3, and no record has a Month longer than
\* 15 characters.
C8_OneRecordPerReachingRow ==
    Returned =>
        /\ \A name \in DOMAIN results :
              LET p == ProductIndex(name)
                  c == 1 + 4 * (p % 4)
                  Reaches(r) == Len(r) > c
                  v == SelectSeq(ValidRowsOf(p), Reaches)
                  got == results[name].rows
              IN  /\ Len(got) = Len(v)
                  /\ \A n \in 1..Len(v) :
                        got[n] = [Month |-> strip(v[n][1].s),
                                  vs |-> CellOrNone(v[n], c),
                                  Chg1 |-> CellOrNone(v[n], c + 1),
                                  Flat |-> CellOrNone(v[n], c + 2),
                                  Chg2 |-> CellOrNone(v[n], c + 3),
                                  Date |-> date_str]
                  /\ \A n \in 1..Len(got) : Len(got[n].Month) <= 15
        /\ ( /\ Len(section_starts) = 7
             /\ \A p \in 0..27 : Len(ValidRowsOf(p)) = 3
             /\ \A i \in 1..Len(raw_data) : Len(raw_data[i]) > 13 )
           => /\ DOMAIN results = FirstNames(28)
              /\ \A name \in DOMAIN results : Len(results[name].rows) = 3

C8_Witness ==
    /\ Returned
    /\ Len(section_starts) = 7
    /\ DOMAIN results = FirstNames(28)
    /\ \A name \in DOMAIN results : Len(results[name].rows) = 3
    /\ \E r \in {DataRowsOf(27)[n] : n \in 1..Len(DataRowsOf(27))} :
          ~r[1].none /\ Len(strip(r[1].s)) > 15
    /\ results["Indian_Soymeal"].rows[2].Month = Nov

\* A narrow grid: the first block is padded, the second has no record.
C8_WitnessPadded ==
    /\ Returned
    /\ "SRW_US_Gulf" \in DOMAIN results
    /\ Len(results["SRW_US_Gulf"].rows) = 3
    /\ results["SRW_US_Gulf"].rows[1].Chg1 # None
    /\ results["SRW_US_Gulf"].rows[1].Flat = None
    /\ results["HRW_Texas_Gulf"].rows = <<>>
====
